---- MODULE Spec2Model ----
(***************************************************************************)
(* Model of the GoTell comment API (package api, Server.postComment and    *)
(* Server.verify) as a state machine.  Go strings are sequences of         *)
(* one-character strings, so that substring search, the regular            *)
(* expressions and the slug pipeline are computed, not assumed.            *)
(*                                                                         *)
(* postComment keeps nothing between requests: all it shares with other    *)
(* requests are the settings, the clock and the remote content store.  The *)
(* server is therefore followed one request at a time, from the middleware *)
(* through the handler's checks to each content-store call, whose answer   *)
(* is the store's choice.  A request may be sent a second time with        *)
(* another Authorization header; the first run is then kept for            *)
(* comparison.  The handler reads the clock once per request.              *)
(***************************************************************************)
EXTENDS Integers, Sequences, FiniteSets, TLC

(***************************************************************************)
(* Strings                                                                 *)
(***************************************************************************)
UpperLetters == <<"A","B","C","D","E","F","G","H","I","J","K","L","M",
                  "N","O","P","Q","R","S","T","U","V","W","X","Y","Z">>

LowerLetters == <<"a","b","c","d","e","f","g","h","i","j","k","l","m",
                  "n","o","p","q","r","s","t","u","v","w","x","y","z">>

Digits == {"0","1","2","3","4","5","6","7","8","9"}

Range(f) == {f[i] : i \in DOMAIN f}

\* unicode.IsSpace on the ASCII range (strings.TrimSpace, \S)
IsSpace(c) == c \in {" ", "\n", "\t", "\r"}

\* the class \w of Go's regexp package: [0-9A-Za-z_]
IsWord(c) == c \in Range(UpperLetters) \cup Range(LowerLetters) \cup Digits \cup {"_"}

ToLowerChar(c) ==
  IF c \in Range(UpperLetters)
    THEN LowerLetters[CHOOSE i \in DOMAIN UpperLetters : UpperLetters[i] = c]
    ELSE c

\* strings.ToLower
ToLower(s) == [i \in 1..Len(s) |-> ToLowerChar(s[i])]

\* Go slice expression s[lo:hi] (0-based, half open); "panic" when out of range
Slice(s, lo, hi) ==
  IF 0 <= lo /\ lo <= hi /\ hi <= Len(s) THEN SubSeq(s, lo + 1, hi) ELSE "panic"

\* strings.TrimSpace
TrimSpace(s) ==
  LET keep == {i \in 1..Len(s) : ~IsSpace(s[i])}
  IN  IF keep = {} THEN <<>>
      ELSE SubSeq(s, CHOOSE i \in keep : \A j \in keep : i <= j,
                     CHOOSE i \in keep : \A j \in keep : i >= j)

\* strings.Trim(s, cutset)
Trim(s, cutset) ==
  LET keep == {i \in 1..Len(s) : s[i] \notin cutset}
  IN  IF keep = {} THEN <<>>
      ELSE SubSeq(s, CHOOSE i \in keep : \A j \in keep : i <= j,
                     CHOOSE i \in keep : \A j \in keep : i >= j)

\* strings.Contains
Contains(s, sub) ==
  \E i \in 0..(Len(s) - Len(sub)) : SubSeq(s, i + 1, i + Len(sub)) = sub

\* strings.SplitAfterN(s, sep, n) for a one-character separator:
\* n = 0 gives no substrings, n > 0 at most n substrings, the last one the
\* unsplit remainder, n < 0 all substrings.
RECURSIVE SplitAfterN(_, _, _)
SplitAfterN(s, sep, n) ==
  IF n = 0 THEN <<>>
  ELSE LET hits == {i \in 1..Len(s) : s[i] = sep}
       IN  IF n = 1 \/ hits = {} THEN <<s>>
           ELSE LET i == CHOOSE h \in hits : \A g \in hits : h <= g
                IN  <<SubSeq(s, 1, i)>> \o
                    SplitAfterN(SubSeq(s, i + 1, Len(s)), sep, IF n < 0 THEN n ELSE n - 1)

\* slugify.ReplaceAllString(s, "-") with slugify = \W
SlugifyReplace(s) == [i \in 1..Len(s) |-> IF IsWord(s[i]) THEN s[i] ELSE "-"]

\* squeeze.ReplaceAllString(s, "-") with squeeze = -+
RECURSIVE SqueezeReplace(_)
SqueezeReplace(s) ==
  IF Len(s) = 0 THEN <<>>
  ELSE IF Len(s) >= 2 /\ s[1] = "-" /\ s[2] = "-" THEN SqueezeReplace(Tail(s))
  ELSE <<s[1]>> \o SqueezeReplace(Tail(s))

\* Min that does not look at the second argument
MinFirst(x, y) == x

Min(x, y) == IF x < y THEN x ELSE y

\* the truncation length of the slug source
SlugMax == 50

\* number of substrings asked of SplitAfterN
SplitCount == 1

\* firstParagraph of postComment
FirstParagraph(body) ==
  SplitAfterN(ToLower(TrimSpace(Slice(body, 0, Len(body)))), "\n", SplitCount)[1]

\* name of postComment
SlugName(firstParagraph) ==
  SqueezeReplace(Trim(SlugifyReplace(
      Slice(firstParagraph, 0, Min(SlugMax, Len(firstParagraph)))), {"-"}))

\* the bounds test of a slice expression s[lo:hi]
SliceInRange(s, lo, hi) == 0 <= lo /\ lo <= hi /\ hi <= Len(s)

\* the two naming lines end in a run-time panic: a slice out of range, or
\* the index [0] on an empty result of SplitAfterN
NamePanics(body) ==
  \/ ~SliceInRange(body, 0, Len(body))
  \/ Len(SplitAfterN(ToLower(TrimSpace(body)), "\n", SplitCount)) < 1
  \/ ~SliceInRange(FirstParagraph(body), 0, Min(SlugMax, Len(FirstParagraph(body))))

(***************************************************************************)
(* Identity verification                                                   *)
(***************************************************************************)
EmailA == <<"a","@","x">>
EmailB == <<"b","@","x">>

\* s.config.JWT.Secret
JWTSecret == "secret"

\* The compact serialisations the requests may carry, with what they decode
\* to: signing algorithm, key the signature was made with, whether the
\* registered claims (exp, nbf, iat) are out of date, and the email claim.
Tokens ==
  { [str |-> <<"t","1">>, alg |-> "HS256", key |-> JWTSecret, expired |-> FALSE,
     email |-> [kind |-> "string", val |-> EmailA]],
    [str |-> <<"t","2">>, alg |-> "HS256", key |-> JWTSecret, expired |-> FALSE,
     email |-> [kind |-> "string", val |-> EmailB]],
    [str |-> <<"t","3">>, alg |-> "HS256", key |-> "other", expired |-> FALSE,
     email |-> [kind |-> "string", val |-> EmailA]],
    [str |-> <<"t","4">>, alg |-> "HS512", key |-> JWTSecret, expired |-> FALSE,
     email |-> [kind |-> "string", val |-> EmailA]],
    [str |-> <<"t","5">>, alg |-> "RS256", key |-> "rsa", expired |-> FALSE,
     email |-> [kind |-> "string", val |-> EmailA]],
    [str |-> <<"t","6">>, alg |-> "HS256", key |-> JWTSecret, expired |-> FALSE,
     email |-> [kind |-> "absent", val |-> <<>>]],
    [str |-> <<"t","7">>, alg |-> "HS256", key |-> JWTSecret, expired |-> FALSE,
     email |-> [kind |-> "number", val |-> <<>>]],
    [str |-> <<"t","8">>, alg |-> "HS256", key |-> JWTSecret, expired |-> TRUE,
     email |-> [kind |-> "string", val |-> EmailA]] }

TokenStrings == {t.str : t \in Tokens}

\* bearerRegexp.FindStringSubmatch(authHeader), bearerRegexp =
\* ^(?:B|b)earer (\S+$): the whole match and the group, or nothing
BearerSubmatch(h) ==
  IF /\ Len(h) >= 8
     /\ h[1] \in {"B", "b"}
     /\ SubSeq(h, 2, 7) = <<"e","a","r","e","r"," ">>
     /\ \A i \in 8..Len(h) : ~IsSpace(h[i])
    THEN <<h, SubSeq(h, 8, Len(h))>>
    ELSE <<>>

\* KeyFunc without the test of the signing method
KeyFuncAnyAlg(alg) == [err |-> FALSE, key |-> JWTSecret]

\* the key function handed to jwt.Parse
KeyFunc(alg) ==
  IF alg # "HS256" THEN [err |-> TRUE, key |-> ""]
                   ELSE [err |-> FALSE, key |-> JWTSecret]

\* jwt.Parse(tokenString, keyFunc): the decoded token with its Valid flag,
\* and whether an error is returned
JwtParse(tokenString) ==
  IF tokenString \notin TokenStrings
    THEN [err |-> TRUE, valid |-> FALSE, email |-> [kind |-> "absent", val |-> <<>>]]
    ELSE LET t == CHOOSE u \in Tokens : u.str = tokenString
             k == KeyFunc(t.alg)
             good == ~k.err /\ ~t.expired /\ t.key = k.key
         IN  [err |-> ~good, valid |-> good, email |-> t.email]

\* Server.verify
verify(email, authHeader) ==
  IF authHeader = <<>> THEN FALSE
  ELSE LET matches == BearerSubmatch(authHeader)
       IN  IF Len(matches) # 2 THEN FALSE
           ELSE LET token == JwtParse(matches[2])
                IN  IF token.err THEN FALSE
                    ELSE IF token.valid
                      THEN token.email.kind # "absent" /\
                           token.email.kind = "string" /\ token.email.val = email
                      ELSE FALSE

(***************************************************************************)
(* Thread identifiers and file names                                       *)
(***************************************************************************)
\* end of the longest run of digits of t that starts at i (i - 1 if none)
DigitRunEnd(t, i) ==
  LET ends == {j \in (i - 1)..Len(t) : \A k \in i..j : t[k] \in Digits}
  IN  CHOOSE j \in ends : \A k \in ends : k <= j

\* end of the longest run of t without a newline that starts at i
LineRunEnd(t, i) ==
  LET ends == {j \in (i - 1)..Len(t) : \A k \in i..j : t[k] # "\n"}
  IN  CHOOSE j \in ends : \A k \in ends : k <= j

\* the submatches of (\d+)-(\d+)-(.+) when the match starts at i, or <<>>
ThreadMatchAt(t, i) ==
  LET e1 == DigitRunEnd(t, i)
      e2 == DigitRunEnd(t, e1 + 2)
      e3 == LineRunEnd(t, e2 + 2)
  IN  IF /\ e1 >= i
         /\ e1 + 1 <= Len(t) /\ t[e1 + 1] = "-"
         /\ e2 >= e1 + 2
         /\ e2 + 1 <= Len(t) /\ t[e2 + 1] = "-"
         /\ e3 >= e2 + 2
        THEN <<SubSeq(t, i, e3), SubSeq(t, i, e1),
               SubSeq(t, e1 + 2, e2), SubSeq(t, e2 + 2, e3)>>
        ELSE <<>>

\* threadRegexp.FindStringSubmatch(thread): the leftmost match, or nothing
ThreadSubmatch(t) ==
  LET starts == {i \in 1..Len(t) : ThreadMatchAt(t, i) # <<>>}
  IN  IF starts = {} THEN <<>>
      ELSE ThreadMatchAt(t, CHOOSE i \in starts : \A j \in starts : i <= j)

\* fmt.Sprintf("%v", n) for a non-negative integer
RECURSIVE Itoa(_)
Itoa(n) ==
  LET d == <<"0","1","2","3","4","5","6","7","8","9">>
  IN  IF n < 10 THEN <<d[n + 1]>> ELSE Itoa(n \div 10) \o <<d[(n % 10) + 1]>>

\* the divisor that turns UnixNano into milliseconds
NanosPerMilli == 1000000

\* s.config.Threads.Source
ThreadsSource == <<"s","r","c">>

\* strings.Split(s, sep) for a one-character separator
RECURSIVE SplitOn(_, _)
SplitOn(s, sep) ==
  LET at == {i \in 1..Len(s) : s[i] = sep}
  IN  IF at = {} THEN <<s>>
      ELSE LET i == CHOOSE k \in at : \A j \in at : k <= j
           IN  <<SubSeq(s, 1, i - 1)>> \o SplitOn(SubSeq(s, i + 1, Len(s)), sep)

\* strings.Join(elems, sep)
RECURSIVE JoinWith(_, _)
JoinWith(elems, sep) ==
  IF elems = <<>> THEN <<>>
  ELSE IF Len(elems) = 1 THEN elems[1]
  ELSE elems[1] \o sep \o JoinWith(Tail(elems), sep)

\* the elements path.Clean keeps: empty and "." elements dropped, ".." taking
\* back the element before it (kept at the front of a path that is not rooted)
RECURSIVE CleanElems(_, _, _)
CleanElems(elems, kept, rooted) ==
  IF elems = <<>> THEN kept
  ELSE LET e == Head(elems) IN
       IF e = <<>> \/ e = <<".">> THEN CleanElems(Tail(elems), kept, rooted)
       ELSE IF e = <<".", ".">>
         THEN IF kept # <<>> /\ kept[Len(kept)] # <<".", ".">>
                THEN CleanElems(Tail(elems), SubSeq(kept, 1, Len(kept) - 1), rooted)
              ELSE IF rooted THEN CleanElems(Tail(elems), kept, rooted)
              ELSE CleanElems(Tail(elems), Append(kept, e), rooted)
       ELSE CleanElems(Tail(elems), Append(kept, e), rooted)

\* path.Clean(p)
PathClean(p) ==
  LET rooted == p # <<>> /\ p[1] = "/"
      out == JoinWith(CleanElems(SplitOn(p, "/"), <<>>, rooted), <<"/">>)
  IN  IF rooted THEN <<"/">> \o out
      ELSE IF out = <<>> THEN <<".">> ELSE out

\* path.Join(elems): the elements that are not empty, joined and cleaned
PathJoin(elems) ==
  LET some == SelectSeq(elems, LAMBDA e : e # <<>>)
  IN  IF some = <<>> THEN <<>> ELSE PathClean(JoinWith(some, <<"/">>))

\* the file name with the clock reading as it is, not in milliseconds
PathnameNanos(matches, nanos, name) ==
  PathJoin(<<ThreadsSource,
             matches[2] \o <<"/">> \o matches[3] \o <<"/">> \o matches[4],
             Itoa(nanos) \o <<"-">> \o name \o <<".","j","s","o","n">>>>)

\* pathname of postComment: path.Join(source, dir, "<millis>-<name>.json")
Pathname(matches, nanos, name) ==
  PathJoin(<<ThreadsSource,
             matches[2] \o <<"/">> \o matches[3] \o <<"/">> \o matches[4],
             Itoa(nanos \div NanosPerMilli) \o <<"-">> \o name
               \o <<".","j","s","o","n">>>>)

(***************************************************************************)
(* The environment of the API server: settings, published site, requests   *)
(***************************************************************************)
Master == <<"m","a","s","t","e","r">>

BannedAddr == "10.0.0.1:40000"
OtherAddr == "10.0.0.2:40000"

BannedEmailEntry == <<"b","@">>
BannedKeywordEntry == <<"$">>

\* the moderation settings the server may have loaded
SettingsSet ==
  { [BannedIPs |-> l.ips, BannedEmails |-> l.emails, BannedKeywords |-> l.keywords,
     TimeLimit |-> tl, RequireApproval |-> ra] :
      l \in { [ips |-> {}, emails |-> {}, keywords |-> {}],
              [ips |-> {BannedAddr}, emails |-> {BannedEmailEntry},
               keywords |-> {BannedKeywordEntry}] },
      tl \in {0, NanosPerMilli},
      ra \in BOOLEAN }

\* the instant the server starts at, in nanoseconds since the epoch
StartTime == 5 * NanosPerMilli

\* Server.entryData(path): the metadata published for the entry, or an error
EntryData(path) ==
  CASE path = "/new" -> [err |-> FALSE, Thread |-> <<"1","-","2","-","s">>,
                         CreatedAt |-> StartTime]
    [] path = "/old" -> [err |-> FALSE, Thread |-> <<"x","3","-","4","-","t","-","u">>,
                         CreatedAt |-> 0]
    [] path = "/odd" -> [err |-> FALSE, Thread |-> <<"1","-","s">>,
                         CreatedAt |-> StartTime]
    [] OTHER         -> [err |-> TRUE, Thread |-> <<>>, CreatedAt |-> 0]

Paths == {"/new", "/old", "/odd", "/none"}

BodyHi == <<"H","i","\n","y","o">>
BodyMail == <<"b","@","x">>
BodySpam == <<"$","1">>

\* a JSON request body: unparsable, or an object with the comment's fields,
\* among them the ones a client may supply although the server assigns them
Doc(email, body, url, suspect, id, verified) ==
  [malformed |-> FALSE, email |-> email, body |-> body, url |-> url,
   suspect |-> suspect, id |-> id, verified |-> verified, ip |-> "", date |-> 0]

\* an address and a date that only a client would put in the body
ForgedAddr == "10.9.9.9:1"
ForgedDate == 1

MalformedDoc ==
  [malformed |-> TRUE, email |-> <<>>, body |-> <<>>, url |-> <<>>,
   suspect |-> FALSE, id |-> <<>>, verified |-> FALSE, ip |-> "", date |-> 0]

Docs ==
  { MalformedDoc,
    Doc(EmailA, BodyHi, <<>>, FALSE, <<>>, FALSE),
    Doc(EmailA, BodyHi, <<>>, TRUE, <<>>, FALSE),
    [Doc(EmailA, BodyHi, <<>>, FALSE, <<"7">>, TRUE)
       EXCEPT !.ip = ForgedAddr, !.date = ForgedDate],
    Doc(EmailB, BodyHi, <<>>, FALSE, <<>>, FALSE),
    Doc(EmailA, BodyMail, <<>>, FALSE, <<>>, FALSE),
    Doc(EmailA, BodyHi, BannedEmailEntry, FALSE, <<>>, FALSE),
    Doc(EmailA, BodySpam, <<>>, FALSE, <<>>, FALSE),
    Doc(EmailA, BodyHi, BannedKeywordEntry, FALSE, <<>>, FALSE),
    Doc(EmailB, BodySpam, <<>>, FALSE, <<>>, FALSE) }

Bearer == <<"B","e","a","r","e","r"," ">>

\* the Authorization headers of the submissions: none, a token for EmailA,
\* a token with a forged signature
ReqHeaders == { <<>>, Bearer \o <<"t","1">>, Bearer \o <<"t","3">> }

JSONType == "application/json"

\* the same media type with a parameter
JSONTypeCharset == "application/json; charset=utf-8"

Requests ==
  [method : {"POST"}, contentType : {JSONType, JSONTypeCharset, "text/plain"},
   remoteAddr : {BannedAddr, OtherAddr}, path : Paths,
   auth : ReqHeaders, doc : Docs]

(***************************************************************************)
(* postComment up to the choice of the path                                *)
(***************************************************************************)
NoComment ==
  [Email |-> <<>>, Body |-> <<>>, URL |-> <<>>, Suspect |-> FALSE,
   IP |-> "", Date |-> 0, ID |-> <<>>, Verified |-> FALSE]

NoResp == [status |-> 0, body |-> "", banned |-> "", msg |-> "", panicked |-> FALSE]

\* what the client sees when the handler panics: net/http recovers, logs and
\* drops the connection, no status line is written
PanicResp == [status |-> 0, body |-> "", banned |-> "", msg |-> "", panicked |-> TRUE]

\* w.Header().Add("X-Banned", marker); fmt.Fprintln(w, "{}")
SilentReject(marker) ==
  [status |-> 200, body |-> "{}", banned |-> marker, msg |-> "", panicked |-> FALSE]

\* jsonError(w, message, status)
jsonError(message, status) ==
  [status |-> status, body |-> "msg", banned |-> "", msg |-> message, panicked |-> FALSE]

\* w.Write(response) with the parsed comment
SuccessResp == [status |-> 200, body |-> "comment", banned |-> "", msg |-> "", panicked |-> FALSE]

\* jsonTypeRequired comparing the media type without its parameters
jsonTypeRequiredMediaType(r) ==
  ~(r.method = "POST" /\ r.contentType \notin {JSONType, JSONTypeCharset})

\* jsonTypeRequired: TRUE when the chain goes on to the handler
jsonTypeRequired(r) == ~(r.method = "POST" /\ r.contentType # JSONType)

\* json.NewDecoder(req.Body).Decode(comment)
DecodeJSON(doc) ==
  IF doc.malformed THEN [err |-> TRUE, comment |-> NoComment]
  ELSE [err |-> FALSE,
        comment |-> [Email |-> doc.email, Body |-> doc.body, URL |-> doc.url,
                     Suspect |-> doc.suspect, IP |-> doc.ip, Date |-> doc.date,
                     ID |-> doc.id, Verified |-> doc.verified]]

\* IPBanned comparing the wrong field of the request
IPBannedByPath(st, r) == \E ip \in st.BannedIPs : r.path = ip

\* the loop over settings.BannedIPs
IPBanned(st, r) == \E ip \in st.BannedIPs : r.remoteAddr = ip

\* ThreadClosed without the test for a zero limit
ThreadClosedZeroToo(st, e, t) == t - e.CreatedAt > st.TimeLimit

\* the time-limit test
ThreadClosed(st, e, t) == st.TimeLimit # 0 /\ t - e.CreatedAt > st.TimeLimit

\* the loop over settings.BannedEmails
EmailBanned(st, c) ==
  \E email \in st.BannedEmails :
     Contains(c.Email, email) \/ Contains(c.Body, email) \/ Contains(c.URL, email)

\* KeywordBanned looking at the body only
KeywordBannedBodyOnly(st, c) ==
  \E keyword \in st.BannedKeywords : Contains(c.Body, keyword)

\* the loop over settings.BannedKeywords
KeywordBanned(st, c) ==
  \E keyword \in st.BannedKeywords :
     Contains(c.Email, keyword) \/ Contains(c.Body, keyword) \/ Contains(c.URL, keyword)

\* comment.IsSuspicious(): a boolean signal that comes with the comment
IsSuspicious(c) == c.Suspect

\* Reviewed with the suspicion test inverted
ReviewedInverted(st, c) == st.RequireApproval \/ ~IsSuspicious(c)

\* Reviewed sending unverified comments to review as well
ReviewedUnlessVerified(st, c) ==
  st.RequireApproval \/ IsSuspicious(c) \/ ~c.Verified

\* the condition of the Reviewed path
Reviewed(st, c) == st.RequireApproval \/ IsSuspicious(c)

\* Stamp keeping a verified flag that came with the body
StampKeepsVerified(c, r, t) ==
  [c EXCEPT !.IP = r.remoteAddr, !.Date = t, !.ID = Itoa(t),
            !.Verified = c.Verified \/ verify(c.Email, r.auth)]

\* the fields the server assigns at intake
Stamp(c, r, t) ==
  [c EXCEPT !.IP = r.remoteAddr, !.Date = t, !.ID = Itoa(t),
            !.Verified = verify(c.Email, r.auth)]

\* CommentBranch when branch keeps its initial value
CommentBranchUnset(c) == Master

\* "comment-" + comment.ID
CommentBranch(c) == <<"c","o","m","m","e","n","t","-">> \o c.ID

Ended(rsp) ==
  [next |-> "done", resp |-> rsp, comment |-> NoComment, message |-> <<>>,
   pathname |-> <<>>, branch |-> <<>>]

\* Intake with the entry looked up before the banned addresses are
IntakeEntryFirst(st, r, t) ==
  LET e == EntryData(r.path) IN
  IF e.err THEN Ended(jsonError("Unable to read entry data", 400))
  ELSE IF IPBanned(st, r) THEN Ended(SilentReject("IP-Banned"))
  ELSE IF ThreadClosed(st, e, t)
    THEN Ended(jsonError("Thread is closed for new comments", 401))
  ELSE LET d == DecodeJSON(r.doc) IN
  IF d.err THEN Ended(jsonError("Error decoding JSON body", 422))
  ELSE IF EmailBanned(st, d.comment) THEN Ended(SilentReject("Email-Banned"))
  ELSE IF KeywordBanned(st, d.comment) THEN Ended(SilentReject("Keyword-Banned"))
  ELSE LET c == Stamp(d.comment, r, t)
           matches == ThreadSubmatch(e.Thread)
       IN
  IF Len(matches) < 4 \/ NamePanics(c.Body) THEN Ended(PanicResp)
  ELSE LET firstParagraph == FirstParagraph(c.Body)
           name == SlugName(firstParagraph)
       IN  [next |-> IF Reviewed(st, c) THEN "getBranch" ELSE "createFileDirect",
            resp |-> NoResp, comment |-> c, message |-> firstParagraph,
            pathname |-> Pathname(matches, t, name),
            branch |-> IF Reviewed(st, c) THEN CommentBranch(c) ELSE Master]

\* postComment from its first line to the choice of the path, for the
\* settings snapshot st, the request r and the clock reading t: the response
\* if the request ends here, else the comment, the file name and the branch
Intake(st, r, t) ==
  IF IPBanned(st, r) THEN Ended(SilentReject("IP-Banned"))
  ELSE LET e == EntryData(r.path) IN
  IF e.err THEN Ended(jsonError("Unable to read entry data", 400))
  ELSE IF ThreadClosed(st, e, t)
    THEN Ended(jsonError("Thread is closed for new comments", 401))
  ELSE LET d == DecodeJSON(r.doc) IN
  IF d.err THEN Ended(jsonError("Error decoding JSON body", 422))
  ELSE IF EmailBanned(st, d.comment) THEN Ended(SilentReject("Email-Banned"))
  ELSE IF KeywordBanned(st, d.comment) THEN Ended(SilentReject("Keyword-Banned"))
  ELSE LET c == Stamp(d.comment, r, t)
           matches == ThreadSubmatch(e.Thread)
       IN
  IF Len(matches) < 4 \/ NamePanics(c.Body) THEN Ended(PanicResp)
  ELSE LET firstParagraph == FirstParagraph(c.Body)
           name == SlugName(firstParagraph)
       IN  [next |-> IF Reviewed(st, c) THEN "getBranch" ELSE "createFileDirect",
            resp |-> NoResp, comment |-> c, message |-> firstParagraph,
            pathname |-> Pathname(matches, t, name),
            branch |-> IF Reviewed(st, c) THEN CommentBranch(c) ELSE Master]

(***************************************************************************)
(* The content-store steps of postComment                                  *)
(***************************************************************************)
NoBranchInfo == [Name |-> <<>>, SHA |-> ""]
MasterHead == [Name |-> Master, SHA |-> "head"]

Call(op, br, path, msg, base, content, ok) ==
  [op |-> op, branch |-> br, path |-> path, message |-> msg, base |-> base,
   content |-> content, ok |-> ok]

\* after Repositories.GetBranch: on an error the returned branch is nil and
\* master.Commit is read before err is looked at
AfterGetBranch(ok) ==
  IF ok THEN [next |-> "createRef", resp |-> NoResp]
        ELSE [next |-> "done", resp |-> PanicResp]

\* AfterCreateRef without the return on an error
AfterCreateRefUnchecked(ok) == [next |-> "createFile", resp |-> NoResp]

\* after Git.CreateRef
AfterCreateRef(ok) ==
  IF ok THEN [next |-> "createFile", resp |-> NoResp]
        ELSE [next |-> "done", resp |-> jsonError("Failed to create comment branch", 500)]

\* AfterCreateFile trying the write again after an error
AfterCreateFileRetry(ok) ==
  IF ok THEN [next |-> "createPR", resp |-> NoResp]
        ELSE [next |-> "createFile", resp |-> NoResp]

\* after Repositories.CreateFile on the comment branch
AfterCreateFile(ok) ==
  IF ok THEN [next |-> "createPR", resp |-> NoResp]
        ELSE [next |-> "done", resp |-> jsonError("Failed to write comment", 500)]

\* AfterCreatePR without the return on an error
AfterCreatePRUnchecked(ok) == [next |-> "done", resp |-> SuccessResp]

\* after PullRequests.Create
AfterCreatePR(ok) ==
  IF ok THEN [next |-> "done", resp |-> SuccessResp]
        ELSE [next |-> "done", resp |-> jsonError("Failed to create PR", 500)]

\* after Repositories.CreateFile on master
AfterCreateFileDirect(ok) ==
  IF ok THEN [next |-> "done", resp |-> SuccessResp]
        ELSE [next |-> "done", resp |-> jsonError("Failed to write comment", 500)]

(***************************************************************************)
(* Bounds and input sets of the function-level specifications              *)
(***************************************************************************)
\* number of times the clock may move
MaxTicks == 1

\* longest body drawn from SlugAlphabet
MaxBodyLen == 3

SlugAlphabet == {"a", "B", "1", "_", "-", " ", "\n", "!"}

BoundedSeqs(S, n) == UNION {[1..k -> S] : k \in 0..n}

HelloBody == <<"H","e","l","l","o",","," ","W","o","r","l","d","!","\n",
               "m","o","r","e"," ","t","e","x","t">>

\* longer than the truncation length, a space at the cut
LongBody == [i \in 1..(SlugMax + 3) |-> IF i >= SlugMax THEN " " ELSE "a"] \o <<"z">>

SlugBodies == BoundedSeqs(SlugAlphabet, MaxBodyLen) \cup {HelloBody, LongBody}

VerifyEmails == {EmailA, EmailB, <<>>}

VerifyHeaders ==
  {<<>>} \cup
  { scheme \o sep \o cred :
      scheme \in { <<"B","e","a","r","e","r">>, <<"b","e","a","r","e","r">>,
                   <<"B","E","A","R","E","R">>, <<"B","a","s","i","c">>,
                   <<"x","B","e","a","r","e","r">> },
      sep \in { <<" ">>, <<>>, <<" "," ">> },
      cred \in TokenStrings \cup { <<>>, <<"z","z">>, <<"t","1"," ">>, <<"t"," ","1">> } }

(***************************************************************************)
(* State                                                                   *)
(***************************************************************************)
VARIABLES
  settings,   \* Server.settings: the moderation settings in force
  now,        \* the last reading of the clock, nanoseconds
  ticks,      \* how often the clock has moved
  pc,         \* where the request being served stands
  req,        \* the request being served
  snap,       \* postComment's local settings
  comment,    \* postComment's comment
  message,    \* firstParagraph
  pathname,   \* pathname
  branch,     \* branch
  master,     \* the result of GetBranch
  calls,      \* the content-store calls of this request, in order
  resp,       \* what has been written to the ResponseWriter
  created,    \* what the request being served has created in the content
              \* store: branches, files as <<branch, path>>, pull requests
  prev,       \* the previous request with its calls, its response and the
              \* clock reading, when the request being served repeats it
              \* with another Authorization
  vpc, vEmail, vHeader, vResult,   \* a call of verify
  npc, nBody, nFirst, nName,       \* a run of the naming lines
  tpc, tThread, tBody, tName, tAt, tPath,
                                   \* submissions served at the same time, each
                                   \* with its thread, body, slug, the clock
                                   \* read for the file name, and its pathname
  mutex,      \* Server.mutex: "free", or who holds it
  refreshes   \* how many times the cached settings have been replaced

serverVars == <<settings, now, ticks, pc, req, snap, comment, message, pathname,
                branch, master, calls, resp, created, prev>>
verifyVars == <<vpc, vEmail, vHeader, vResult>>
nameVars == <<npc, nBody, nFirst, nName>>
pathVars == <<tpc, tThread, tBody, tName, tAt, tPath>>
settingsVars == <<mutex, refreshes>>
vars == <<serverVars, verifyVars, nameVars, pathVars, settingsVars>>

NoReq ==
  [method |-> "", contentType |-> "", remoteAddr |-> "", path |-> "",
   auth |-> <<>>, doc |-> MalformedDoc]

NoSettings ==
  [BannedIPs |-> {}, BannedEmails |-> {}, BannedKeywords |-> {},
   TimeLimit |-> 0, RequireApproval |-> FALSE]

NoObjects == [branches |-> {}, files |-> {}, pulls |-> {}]

NoPrev == [set |-> FALSE, req |-> NoReq, calls |-> <<>>, resp |-> NoResp,
           comment |-> NoComment, at |-> 0]

ServerIdle ==
  /\ now = StartTime /\ ticks = 0
  /\ pc = "idle" /\ req = NoReq /\ snap = NoSettings /\ comment = NoComment
  /\ message = <<>> /\ pathname = <<>> /\ branch = <<>> /\ master = NoBranchInfo
  /\ calls = <<>> /\ resp = NoResp /\ created = NoObjects /\ prev = NoPrev

VerifyOff == vpc = "off" /\ vEmail = <<>> /\ vHeader = <<>> /\ vResult = FALSE
NameOff == npc = "off" /\ nBody = <<>> /\ nFirst = <<>> /\ nName = <<>>

SettingsOff == mutex = "free" /\ refreshes = 0

\* the submissions that SpecPath serves at the same time
Submissions == {1, 2}

PathOff ==
  /\ tpc = [i \in Submissions |-> "off"]
  /\ tThread = [i \in Submissions |-> <<>>] /\ tBody = [i \in Submissions |-> <<>>]
  /\ tName = [i \in Submissions |-> <<>>] /\ tAt = [i \in Submissions |-> 0]
  /\ tPath = [i \in Submissions |-> <<>>]

\* NewServerWithVersion: no request yet, some settings in force
Init ==
  /\ settings \in SettingsSet /\ ServerIdle
  /\ VerifyOff /\ NameOff /\ PathOff /\ SettingsOff

(***************************************************************************)
(* Actions of the server                                                   *)
(***************************************************************************)
Fresh(r) ==
  /\ req' = r
  /\ pc' = "received"
  /\ snap' = NoSettings /\ comment' = NoComment /\ message' = <<>>
  /\ pathname' = <<>> /\ branch' = <<>> /\ master' = NoBranchInfo
  /\ calls' = <<>> /\ resp' = NoResp /\ created' = NoObjects
  /\ UNCHANGED <<settings, now, ticks, verifyVars, nameVars, pathVars, settingsVars>>

\* a POST arrives
Receive ==
  /\ pc = "idle"
  /\ \E r \in Requests : Fresh(r)
  /\ prev' = NoPrev

\* the request is over: its goroutine ends and nothing of it is kept
Release ==
  /\ pc = "done"
  /\ pc' = "idle" /\ req' = NoReq /\ snap' = NoSettings /\ comment' = NoComment
  /\ message' = <<>> /\ pathname' = <<>> /\ branch' = <<>> /\ master' = NoBranchInfo
  /\ calls' = <<>> /\ resp' = NoResp /\ created' = NoObjects /\ prev' = NoPrev
  /\ UNCHANGED <<settings, now, ticks, verifyVars, nameVars, pathVars, settingsVars>>

\* the same submission arrives again with another Authorization header
Resubmit ==
  /\ pc = "done" /\ ~prev.set
  /\ \E h \in ReqHeaders \ {req.auth} : Fresh([req EXCEPT !.auth = h])
  /\ prev' = [set |-> TRUE, req |-> req, calls |-> calls, resp |-> resp,
              comment |-> comment, at |-> now]

\* a body without the fields that the server assigns
AsSent(doc) == [doc EXCEPT !.id = <<>>, !.verified = FALSE, !.ip = "", !.date = 0]

\* the same submission arrives again with other values in the fields of the
\* body that the server assigns
ResubmitForged ==
  /\ pc = "done" /\ ~prev.set
  /\ \E d \in Docs \ {req.doc} :
       AsSent(d) = AsSent(req.doc) /\ Fresh([req EXCEPT !.doc = d])
  /\ prev' = [set |-> TRUE, req |-> req, calls |-> calls, resp |-> resp,
              comment |-> comment, at |-> now]

\* the middleware chain: timeRequest, jsonTypeRequired
Middleware ==
  /\ pc = "received"
  /\ IF jsonTypeRequired(req)
       THEN pc' = "postComment" /\ resp' = NoResp
       ELSE pc' = "done" /\
            resp' = [status |-> 422, body |-> "text", banned |-> "",
                     msg |-> "Content-Type must be application/json",
                     panicked |-> FALSE]
  /\ UNCHANGED <<settings, now, ticks, req, snap, comment, message, pathname,
                 branch, master, calls, created, prev, verifyVars, nameVars, pathVars, settingsVars>>

\* postComment from its first line to the choice of the path
PostComment ==
  /\ pc = "postComment"
  /\ \E d \in {0, 1, NanosPerMilli} :
       /\ d = 0 \/ ticks < MaxTicks
       /\ now' = now + d
       /\ ticks' = IF d = 0 THEN ticks ELSE ticks + 1
       /\ LET in == Intake(settings, req, now + d) IN
            /\ pc' = in.next
            /\ resp' = in.resp
            /\ comment' = in.comment
            /\ message' = in.message
            /\ pathname' = in.pathname
            /\ branch' = in.branch
  /\ snap' = settings
  /\ UNCHANGED <<settings, req, master, calls, created, prev, verifyVars, nameVars, pathVars, settingsVars>>

StoreStep(call, after) ==
  /\ calls' = Append(calls, call)
  /\ pc' = after.next
  /\ resp' = after.resp
  /\ UNCHANGED <<settings, now, ticks, req, snap, comment, message, pathname,
                 branch, prev, verifyVars, nameVars, pathVars, settingsVars>>

\* s.client.Repositories.GetBranch(ctx, owner, repo, "master")
GetBranch ==
  /\ pc = "getBranch"
  /\ \E ok \in BOOLEAN :
       /\ master' = IF ok THEN MasterHead ELSE NoBranchInfo
       /\ created' = created
       /\ StoreStep(Call("GetBranch", Master, <<>>, <<>>, <<>>, NoComment, ok),
                    AfterGetBranch(ok))

\* s.client.Git.CreateRef(ctx, owner, repo, refs/heads/<branch> at sha)
CreateRef ==
  /\ pc = "createRef"
  /\ \E ok \in BOOLEAN :
       /\ created' = IF ok THEN [created EXCEPT !.branches = @ \cup {branch}]
                           ELSE created
       /\ StoreStep(Call("CreateRef", branch, <<>>, <<>>, <<>>, NoComment, ok),
                    AfterCreateRef(ok))
  /\ UNCHANGED master

\* s.client.Repositories.CreateFile on the comment branch
CreateFile ==
  /\ pc = "createFile"
  /\ \E ok \in BOOLEAN :
       /\ created' = IF ok THEN [created EXCEPT !.files = @ \cup {<<branch, pathname>>}]
                           ELSE created
       /\ StoreStep(Call("CreateFile", branch, pathname, message, <<>>, comment, ok),
                    AfterCreateFile(ok))
  /\ UNCHANGED master

\* s.client.PullRequests.Create from the comment branch into master.Name
CreatePR ==
  /\ pc = "createPR"
  /\ \E ok \in BOOLEAN :
       /\ created' = IF ok THEN [created EXCEPT !.pulls = @ \cup {branch}]
                           ELSE created
       /\ StoreStep(Call("CreatePR", branch, <<>>, message, master.Name, NoComment, ok),
                    AfterCreatePR(ok))
  /\ UNCHANGED master

\* s.client.Repositories.CreateFile on master
CreateFileDirect ==
  /\ pc = "createFileDirect"
  /\ \E ok \in BOOLEAN :
       /\ created' = IF ok THEN [created EXCEPT !.files = @ \cup {<<branch, pathname>>}]
                           ELSE created
       /\ StoreStep(Call("CreateFile", branch, pathname, message, <<>>, comment, ok),
                    AfterCreateFileDirect(ok))
  /\ UNCHANGED master

Next ==
  \/ Receive
  \/ Release
  \/ Resubmit
  \/ ResubmitForged
  \/ Middleware
  \/ PostComment
  \/ GetBranch
  \/ CreateRef
  \/ CreateFile
  \/ CreatePR
  \/ CreateFileDirect

Spec == Init /\ [][Next]_vars

(***************************************************************************)
(* verify on its own                                                       *)
(***************************************************************************)
InitVerify ==
  /\ settings = NoSettings /\ ServerIdle /\ NameOff /\ PathOff /\ SettingsOff
  /\ vpc = "call" /\ vEmail \in VerifyEmails /\ vHeader \in VerifyHeaders
  /\ vResult = FALSE

VerifyCall ==
  /\ vpc = "call"
  /\ vResult' = verify(vEmail, vHeader)
  /\ vpc' = "ret"
  /\ UNCHANGED <<serverVars, nameVars, pathVars, settingsVars, vEmail, vHeader>>

NextVerify == VerifyCall

SpecVerify == InitVerify /\ [][NextVerify]_vars

(***************************************************************************)
(* The naming lines of postComment on their own                            *)
(***************************************************************************)
InitName ==
  /\ settings = NoSettings /\ ServerIdle /\ VerifyOff /\ PathOff /\ SettingsOff
  /\ npc = "call" /\ nBody \in SlugBodies /\ nFirst = <<>> /\ nName = <<>>

NameCall ==
  /\ npc = "call"
  /\ IF NamePanics(nBody)
       THEN npc' = "panic" /\ nFirst' = <<>> /\ nName' = <<>>
       ELSE /\ nFirst' = FirstParagraph(nBody)
            /\ nName' = SlugName(FirstParagraph(nBody))
            /\ npc' = "ret"
  /\ UNCHANGED <<serverVars, verifyVars, pathVars, settingsVars, nBody>>

NextName == NameCall

SpecName == InitName /\ [][NextName]_vars

(***************************************************************************)
(* The path lines of postComment for two submissions at the same time      *)
(***************************************************************************)
\* published thread identifiers: two with the same match of threadRegexp,
\* one whose last part ends in a "." element, one of another thread
PathThreads ==
  { <<"1","-","2","-","s">>, <<"x","1","-","2","-","s">>,
    <<"1","-","2","-","s","/",".">>, <<"1","-","2","-","t">> }

\* bodies: two with the same slug, one with another
PathBodies == { <<"H","i">>, <<"h","i","!">>, <<"y","o">> }

InitPath ==
  /\ settings = NoSettings /\ ServerIdle /\ VerifyOff /\ NameOff /\ SettingsOff
  /\ tpc = [i \in Submissions |-> "thread"]
  /\ tThread \in [Submissions -> PathThreads]
  /\ tBody \in [Submissions -> PathBodies]
  /\ tName = [i \in Submissions |-> <<>>] /\ tAt = [i \in Submissions |-> 0]
  /\ tPath = [i \in Submissions |-> <<>>]

\* the clock moves on between the steps of the submissions
Tick ==
  /\ ticks < MaxTicks
  /\ \E d \in {1, NanosPerMilli} : now' = now + d
  /\ ticks' = ticks + 1
  /\ UNCHANGED <<settings, pc, req, snap, comment, message, pathname, branch,
                 master, calls, resp, created, prev, verifyVars, nameVars, pathVars, settingsVars>>

\* lines 100-103 for submission i: the match of the thread and the slug
ResolveThread(i) ==
  /\ tpc[i] = "thread"
  /\ IF Len(ThreadSubmatch(tThread[i])) < 4 \/ NamePanics(tBody[i])
       THEN tpc' = [tpc EXCEPT ![i] = "panic"] /\ tName' = tName
       ELSE /\ tName' = [tName EXCEPT ![i] = SlugName(FirstParagraph(tBody[i]))]
            /\ tpc' = [tpc EXCEPT ![i] = "path"]
  /\ UNCHANGED <<serverVars, verifyVars, nameVars, settingsVars,
                 tThread, tBody, tAt, tPath>>

\* lines 105-109 for submission i: the clock is read and the pathname made
NamePath(i) ==
  /\ tpc[i] = "path"
  /\ tAt' = [tAt EXCEPT ![i] = now]
  /\ tPath' = [tPath EXCEPT ![i] = Pathname(ThreadSubmatch(tThread[i]), now, tName[i])]
  /\ tpc' = [tpc EXCEPT ![i] = "named"]
  /\ UNCHANGED <<serverVars, verifyVars, nameVars, settingsVars,
                 tThread, tBody, tName>>

NextPath ==
  \/ Tick
  \/ \E i \in Submissions : ResolveThread(i)
  \/ \E i \in Submissions : NamePath(i)

SpecPath == InitPath /\ [][NextPath]_vars

(***************************************************************************)
(* postComment check by check, the cached settings refreshed meanwhile     *)
(***************************************************************************)
\* most replacements of the cached settings during one request
MaxRefresh == 1

\* the policy a check of postComment consults, reading the cache instead of
\* the local variable
PolicyOfCache(local, cache) == cache

\* the policy a check of postComment consults: the local variable settings
\* assigned on line 52, not the field s.settings
PolicyOf(local, cache) == local

SettingsDocs == {d \in Docs : d.id = <<>> /\ d.email # EmailB}

SettingsRequests ==
  {r \in Requests : /\ r.contentType = JSONType /\ r.auth = <<>>
                    /\ r.path # "/odd" /\ r.doc \in SettingsDocs}

InitSettings ==
  /\ settings \in SettingsSet
  /\ now = StartTime /\ ticks = 0
  /\ pc = "getSettings" /\ req \in SettingsRequests
  /\ snap = NoSettings /\ comment = NoComment
  /\ message = <<>> /\ pathname = <<>> /\ branch = <<>> /\ master = NoBranchInfo
  /\ calls = <<>> /\ resp = NoResp /\ created = NoObjects /\ prev = NoPrev
  /\ VerifyOff /\ NameOff /\ PathOff /\ SettingsOff

\* the refresh routine takes the mutex
RefreshLock ==
  /\ mutex = "free" /\ refreshes < MaxRefresh
  /\ mutex' = "refresh"
  /\ UNCHANGED <<serverVars, verifyVars, nameVars, pathVars, refreshes>>

\* the refresh routine replaces the cached settings as a whole and unlocks
RefreshStore ==
  /\ mutex = "refresh"
  /\ settings' \in SettingsSet \ {settings}
  /\ mutex' = "free" /\ refreshes' = refreshes + 1
  /\ UNCHANGED <<now, ticks, pc, req, snap, comment, message, pathname, branch,
                 master, calls, resp, created, prev, verifyVars, nameVars, pathVars>>

\* s.getSettings(): the mutex is taken
LockSettings ==
  /\ pc = "getSettings" /\ mutex = "free"
  /\ mutex' = "request" /\ pc' = "readSettings"
  /\ UNCHANGED <<settings, now, ticks, req, snap, comment, message, pathname,
                 branch, master, calls, resp, created, prev,
                 verifyVars, nameVars, pathVars, refreshes>>

\* s.getSettings() returns the cached settings and gives the mutex back;
\* line 52 keeps them in the local variable
ReadSettings ==
  /\ pc = "readSettings"
  /\ snap' = settings
  /\ mutex' = "free" /\ pc' = "checkAddress"
  /\ UNCHANGED <<settings, now, ticks, req, comment, message, pathname,
                 branch, master, calls, resp, created, prev,
                 verifyVars, nameVars, pathVars, refreshes>>

\* a check of postComment: it ends the request with rsp or goes on to next
CheckStep(rejected, rsp, next, c) ==
  /\ pc' = IF rejected THEN "done" ELSE next
  /\ resp' = IF rejected THEN rsp ELSE NoResp
  /\ comment' = IF rejected THEN NoComment ELSE c
  /\ UNCHANGED <<settings, now, ticks, req, snap, message, pathname, branch,
                 master, calls, created, prev,
                 verifyVars, nameVars, pathVars, settingsVars>>

\* lines 53-59
CheckAddress ==
  /\ pc = "checkAddress"
  /\ CheckStep(IPBanned(PolicyOf(snap, settings), req),
               SilentReject("IP-Banned"), "checkEntry", comment)

\* lines 61-69
CheckEntry ==
  /\ pc = "checkEntry"
  /\ LET e == EntryData(req.path) IN
       IF e.err
         THEN CheckStep(TRUE, jsonError("Unable to read entry data", 400),
                        "done", comment)
         ELSE CheckStep(ThreadClosed(PolicyOf(snap, settings), e, now),
                        jsonError("Thread is closed for new comments", 401),
                        "checkComment", comment)

\* lines 71-92
CheckComment ==
  /\ pc = "checkComment"
  /\ LET d == DecodeJSON(req.doc)
         st == PolicyOf(snap, settings)
     IN  IF d.err
           THEN CheckStep(TRUE, jsonError("Error decoding JSON body", 422),
                          "done", comment)
         ELSE IF EmailBanned(st, d.comment)
           THEN CheckStep(TRUE, SilentReject("Email-Banned"), "done", comment)
         ELSE CheckStep(KeywordBanned(st, d.comment),
                        SilentReject("Keyword-Banned"), "route", d.comment)

\* lines 94-114
Route ==
  /\ pc = "route"
  /\ LET c == Stamp(comment, req, now)
         matches == ThreadSubmatch(EntryData(req.path).Thread)
         reviewed == Reviewed(PolicyOf(snap, settings), c)
     IN  IF Len(matches) < 4 \/ NamePanics(c.Body)
           THEN /\ pc' = "done" /\ resp' = PanicResp /\ comment' = NoComment
                /\ UNCHANGED <<message, pathname, branch>>
           ELSE /\ pc' = IF reviewed THEN "getBranch" ELSE "createFileDirect"
                /\ resp' = NoResp /\ comment' = c
                /\ message' = FirstParagraph(c.Body)
                /\ pathname' = Pathname(matches, now, SlugName(FirstParagraph(c.Body)))
                /\ branch' = IF reviewed THEN CommentBranch(c) ELSE Master
  /\ UNCHANGED <<settings, now, ticks, req, snap, master, calls, created, prev,
                 verifyVars, nameVars, pathVars, settingsVars>>

NextSettings ==
  \/ RefreshLock \/ RefreshStore
  \/ LockSettings \/ ReadSettings
  \/ CheckAddress \/ CheckEntry \/ CheckComment \/ Route
  \/ GetBranch \/ CreateRef \/ CreateFile \/ CreatePR \/ CreateFileDirect

SpecSettings == InitSettings /\ [][NextSettings]_vars
(***************************************************************************)
(* Vocabulary of the properties, stated on the request and the settings    *)
(***************************************************************************)
\* the handler has made its checks for the request being served
Handled == pc \in {"getBranch", "createRef", "createFile", "createPR",
                   "createFileDirect", "done"}

SentJSON == req.contentType = JSONType

AddrInBanList == req.remoteAddr \in settings.BannedIPs

EntryReadable == req.path \in {"/new", "/old", "/odd"}

EntryCreatedAt == IF req.path = "/old" THEN 0 ELSE StartTime

ThreadWellFormed == req.path \in {"/new", "/old"}

AgeOverLimit(at) == at - EntryCreatedAt > settings.TimeLimit

HasBanned(entries) ==
  \E b \in entries :
     Contains(req.doc.email, b) \/ Contains(req.doc.body, b) \/ Contains(req.doc.url, b)

\* the request went through every check of the handler and reached the store
PassedChecks ==
  /\ Handled /\ SentJSON /\ ~AddrInBanList
  /\ EntryReadable /\ ThreadWellFormed
  /\ ~(settings.TimeLimit # 0 /\ AgeOverLimit(now))
  /\ ~req.doc.malformed
  /\ ~HasBanned(settings.BannedEmails) /\ ~HasBanned(settings.BannedKeywords)

Ops(cs) == [i \in 1..Len(cs) |-> cs[i].op]

ReviewedOps == <<"GetBranch", "CreateRef", "CreateFile", "CreatePR">>

IsPrefix(a, b) == Len(a) <= Len(b) /\ a = SubSeq(b, 1, Len(a))

Made(op) == \E i \in 1..Len(calls) : calls[i].op = op

Failed(op) == \E i \in 1..Len(calls) : calls[i].op = op /\ ~calls[i].ok

(***************************************************************************)
(* Properties                                                              *)
(***************************************************************************)
\* C1: a submission that passes all checks while approval is required makes
\* GetBranch, CreateRef, CreateFile and the pull request call once each and
\* in that order, each one as soon as the one before it has succeeded; once
\* CreateRef has failed neither CreateFile nor the pull request call is made.
C1_ReviewedCallsInOrder ==
  PassedChecks /\ settings.RequireApproval =>
    /\ IsPrefix(Ops(calls), ReviewedOps)
    /\ \A i \in 1..(Len(calls) - 1) : calls[i].ok
    /\ pc = "done" => /\ calls # <<>>
                      /\ Len(calls) < 4 => ~calls[Len(calls)].ok
    /\ Failed("CreateRef") => ~Made("CreateFile") /\ ~Made("CreatePR")

C1_Witness ==
  /\ PassedChecks /\ settings.RequireApproval /\ pc = "done"
  /\ Ops(calls) = ReviewedOps /\ \A i \in 1..4 : calls[i].ok

\* C2: a submission that passes all checks with approval not required and a
\* comment that is not suspicious makes one CreateFile call and no
\* GetBranch, CreateRef or pull request call.
C2_DirectMakesOneCreateFile ==
  PassedChecks /\ ~settings.RequireApproval /\ ~req.doc.suspect =>
    /\ IsPrefix(Ops(calls), <<"CreateFile">>)
    /\ pc = "done" => Ops(calls) = <<"CreateFile">>
    /\ pc # "done" => pc = "createFileDirect" /\ calls = <<>>

C2_Witness ==
  /\ PassedChecks /\ ~settings.RequireApproval /\ ~req.doc.suspect
  /\ pc = "done" /\ Ops(calls) = <<"CreateFile">> /\ calls[1].ok

CommentPrefix == <<"c","o","m","m","e","n","t","-">>

NeedsReview == settings.RequireApproval \/ req.doc.suspect

\* C3: the Reviewed path is taken exactly when approval is required or the
\* comment is suspicious; on it the file is written to the branch
\* comment-<ID> only, on the Direct path to master; so no comment that needs
\* review is ever written to master.
C3_ReviewedNeverWritesMaster ==
  /\ \A i \in 1..Len(calls) :
       calls[i].op = "CreateFile" /\ calls[i].branch = Master => ~NeedsReview
  /\ PassedChecks =>
       /\ NeedsReview <=> pc \in {"getBranch", "createRef", "createFile", "createPR"}
                          \/ (pc = "done" /\ calls[1].op = "GetBranch")
       /\ NeedsReview => branch = CommentPrefix \o comment.ID /\ branch # Master
       /\ ~NeedsReview => branch = Master
       /\ \A i \in 1..Len(calls) :
            calls[i].op = "CreateFile" =>
              /\ calls[i].branch = branch
              /\ calls[i].path = pathname
              /\ calls[i].content = comment

C3_Witness ==
  /\ PassedChecks /\ req.doc.suspect /\ ~settings.RequireApproval /\ pc = "done"
  /\ \E i \in 1..Len(calls) :
       calls[i].op = "CreateFile" /\ calls[i].ok /\ calls[i].branch = CommentPrefix \o Itoa(now)

\* C4: on the Reviewed path the failure of any of the four steps, the first
\* one included, ends the request with status 500 and a message, and no
\* later step is made.
C4_EveryStepFailureIs500 ==
  PassedChecks /\ NeedsReview /\ pc = "done" /\ ~calls[Len(calls)].ok =>
    /\ resp.status = 500 /\ resp.body = "msg" /\ resp.msg # "" /\ ~resp.panicked
    /\ \A i \in 1..(Len(calls) - 1) : calls[i].ok

\* C5 as stated: every submission from a banned address is answered 200 with
\* body {} and makes no content-store call.
C5_BannedAddressAlwaysSilent ==
  pc = "done" /\ AddrInBanList =>
    resp.status = 200 /\ resp.body = "{}" /\ calls = <<>>

\* C5: a submission from a banned address makes no content-store call, and
\* when it is sent as application/json, so that it reaches postComment, it
\* is answered 200 with body {} and the marker IP-Banned.
C5_BannedAddressSilentIfJSON ==
  /\ AddrInBanList => calls = <<>>
  /\ pc = "done" /\ AddrInBanList /\ SentJSON =>
       resp.status = 200 /\ resp.body = "{}" /\ resp.banned = "IP-Banned"

C5_Witness ==
  /\ pc = "done" /\ AddrInBanList /\ SentJSON /\ EntryReadable
  /\ resp.status = 200 /\ resp.body = "{}"

HasBannedText == HasBanned(settings.BannedEmails) \/ HasBanned(settings.BannedKeywords)

\* C6 as stated: every submission whose email, body or URL contains a banned
\* email or keyword is answered 200 with body {} and makes no content-store
\* call.
C6_BannedTextAlwaysSilent ==
  pc = "done" /\ HasBannedText =>
    resp.status = 200 /\ resp.body = "{}" /\ calls = <<>>

\* C6: a submission whose email, body or URL contains a banned email or
\* keyword makes no content-store call, and when it is sent as
\* application/json with a body that decodes, to a readable thread that the
\* time limit has not closed, it is answered 200 with body {}.
C6_BannedTextSilentIfReached ==
  /\ HasBannedText => calls = <<>>
  /\ pc = "done" /\ HasBannedText /\ SentJSON /\ EntryReadable
       /\ ~(settings.TimeLimit # 0 /\ AgeOverLimit(now)) /\ ~req.doc.malformed =>
       /\ resp.status = 200 /\ resp.body = "{}"
       /\ ~AddrInBanList =>
            resp.banned = IF HasBanned(settings.BannedEmails)
                            THEN "Email-Banned" ELSE "Keyword-Banned"

C6_Witness ==
  /\ pc = "done" /\ SentJSON /\ ~AddrInBanList
  /\ ~HasBanned(settings.BannedEmails)
  /\ \E b \in settings.BannedKeywords :
        Contains(req.doc.url, b) /\ ~Contains(req.doc.body, b)
  /\ resp.status = 200 /\ resp.banned = "Keyword-Banned"

OverAge == EntryReadable /\ settings.TimeLimit # 0 /\ AgeOverLimit(now)

\* C7 as stated: every submission to a thread older than the non-zero time
\* limit is answered 401 and makes no content-store call; with a zero limit
\* nothing is answered 401.
C7_OverAgeAlways401 ==
  /\ pc = "done" /\ OverAge => resp.status = 401 /\ calls = <<>>
  /\ settings.TimeLimit = 0 => resp.status # 401

\* C7: a submission to a thread older than the non-zero time limit makes no
\* content-store call, and when it is sent as application/json from an
\* address that is not banned it is answered 401, thread closed; with a zero
\* limit nothing is answered 401, whatever the age.
C7_OverAge401IfReached ==
  /\ OverAge => calls = <<>>
  /\ pc = "done" /\ OverAge /\ SentJSON /\ ~AddrInBanList =>
       resp.status = 401 /\ resp.msg = "Thread is closed for new comments"
  /\ settings.TimeLimit = 0 => resp.status # 401

C7_Witness ==
  /\ pc = "done" /\ OverAge /\ SentJSON /\ ~AddrInBanList
  /\ resp.status = 401

\* the header up to its first space, and after it
SchemeOf(h) ==
  LET sp == {i \in 1..Len(h) : h[i] = " "}
  IN  IF sp = {} THEN h ELSE SubSeq(h, 1, (CHOOSE i \in sp : \A j \in sp : i <= j) - 1)

CredentialsOf(h) ==
  LET sp == {i \in 1..Len(h) : h[i] = " "}
  IN  IF sp = {} THEN <<>>
      ELSE SubSeq(h, (CHOOSE i \in sp : \A j \in sp : i <= j) + 1, Len(h))

GoodTokenFor(t, email) ==
  /\ t.alg = "HS256" /\ t.key = JWTSecret /\ ~t.expired
  /\ t.email.kind = "string" /\ t.email.val = email

\* C8: verify answers false without an Authorization header, for a scheme
\* that is not bearer, for a forged signature, for a signing method other
\* than HS256 and for an email claim that is absent or differs; it answers
\* true only for an HS256 token signed with the secret whose email claim is
\* the claimed email.
C8_VerifyOnlyGoodToken ==
  vpc = "ret" =>
    /\ vHeader = <<>> => ~vResult
    /\ ToLower(SchemeOf(vHeader)) # <<"b","e","a","r","e","r">> => ~vResult
    /\ \A t \in Tokens :
         CredentialsOf(vHeader) = t.str /\ ~GoodTokenFor(t, vEmail) => ~vResult
    /\ vResult => \E t \in Tokens :
                    CredentialsOf(vHeader) = t.str /\ GoodTokenFor(t, vEmail)

C8_Witness ==
  /\ vpc = "ret" /\ vResult
  /\ vEmail = EmailA /\ vHeader = Bearer \o <<"t","1">>

SameStoreResults ==
  \A i \in 1..Min(Len(calls), Len(prev.calls)) : calls[i].ok = prev.calls[i].ok

OpenAt(at) == ~(settings.TimeLimit # 0 /\ AgeOverLimit(at))

\* C9: of two submissions that differ in the Authorization header only, that
\* both pass the time-limit check and that get the same answers from the
\* store, both make the same content-store calls and get the same status,
\* and their comments differ in nothing the client sent; what verify
\* answers shows in the verified flag only.
C9_VerifyOnlySetsFlag ==
  /\ pc = "done" /\ prev.set
  /\ prev.req = [req EXCEPT !.auth = prev.req.auth]
  /\ OpenAt(prev.at) /\ OpenAt(now)
  /\ SameStoreResults
  =>
  /\ Ops(calls) = Ops(prev.calls)
  /\ resp.status = prev.resp.status
  /\ resp.body = prev.resp.body
  /\ [comment EXCEPT !.Verified = FALSE, !.ID = <<>>, !.Date = 0]
       = [prev.comment EXCEPT !.Verified = FALSE, !.ID = <<>>, !.Date = 0]
  /\ Handled /\ calls # <<>> =>
       comment.Verified = (req.doc.email = EmailA /\ req.auth = Bearer \o <<"t","1">>)

C9_Witness ==
  /\ pc = "done" /\ prev.set /\ PassedChecks
  /\ prev.comment.Verified /\ ~comment.Verified
  /\ Len(calls) = 4 /\ Ops(calls) = Ops(prev.calls)
  /\ resp.status = 200 /\ prev.resp.status = 200

\* the text up to the first newline
FirstLine(b) ==
  LET nl == {i \in 1..Len(b) : b[i] = "\n"}
  IN  IF nl = {} THEN b ELSE SubSeq(b, 1, (CHOOSE i \in nl : \A j \in nl : i <= j) - 1)

\* the slug of a line: lower case, at most SlugMax characters, hyphens for
\* non-word characters, runs of hyphens collapsed, outer hyphens trimmed
SlugOfLine(l) ==
  Trim(SqueezeReplace(SlugifyReplace(SubSeq(ToLower(l), 1, Min(SlugMax, Len(l))))), {"-"})

\* C10: the slug and the commit message come from the first line of the
\* body only, the body taken without its outer white space: the slug is the
\* slug of that line and the message does not go past its newline; the body
\* "Hello, World!\nmore text" gives the slug hello-world.
C10_SlugFromFirstLine ==
  npc = "ret" =>
    /\ nName = SlugOfLine(FirstLine(TrimSpace(nBody)))
    /\ IsPrefix(nFirst, ToLower(FirstLine(TrimSpace(nBody))) \o <<"\n">>)
    /\ nBody = HelloBody =>
         nName = <<"h","e","l","l","o","-","w","o","r","l","d">>

\* C11: the naming lines never end in an out-of-range panic, whatever the
\* body, the empty one and those shorter than the truncation length
\* included, and the slug is made of word characters and single hyphens,
\* with no hyphen at either end.
C11_SlugNeverOutOfRange ==
  /\ npc # "panic"
  /\ npc = "ret" =>
       /\ \A i \in 1..Len(nName) : IsWord(nName[i]) \/ nName[i] = "-"
       /\ \A i \in 1..(Len(nName) - 1) : ~(nName[i] = "-" /\ nName[i + 1] = "-")
       /\ nName # <<>> => nName[1] # "-" /\ nName[Len(nName)] # "-"
       /\ Len(nName) <= SlugMax

C11_Witness ==
  /\ npc = "ret" /\ nBody = <<>> /\ nName = <<>> /\ nFirst = <<>>

\* the request got as far as the thread identifier: no earlier check of the
\* handler has answered it
ReachedThreadID ==
  /\ Handled /\ SentJSON /\ ~AddrInBanList /\ EntryReadable /\ OpenAt(now)
  /\ ~req.doc.malformed /\ ~HasBannedText

\* C12: a submission whose thread identifier does not match the three-part
\* pattern is answered with a 4xx validation error that carries a message,
\* and makes no content-store call.
C12_MalformedThreadIs4xx ==
  pc = "done" /\ ReachedThreadID /\ ~ThreadWellFormed =>
    /\ resp.status >= 400 /\ resp.status <= 499
    /\ resp.body = "msg" /\ resp.msg # "" /\ ~resp.panicked
    /\ calls = <<>>

AllStoreCallsSucceeded ==
  /\ Ops(calls) \in {<<"CreateFile">>, ReviewedOps}
  /\ \A i \in 1..Len(calls) : calls[i].ok

\* C13: the parsed comment is the response body exactly when every
\* content-store call of the chosen path succeeded (CreateFile on the
\* Direct path, all four steps on the Reviewed path); no rejection and no
\* failure writes it.
C13_ViewOnlyOnSuccess ==
  /\ pc # "done" => resp.body # "comment"
  /\ pc = "done" => (resp.body = "comment" <=> AllStoreCallsSucceeded)
  /\ resp.body = "comment" => resp.status = 200 /\ PassedChecks

C13_Witness ==
  /\ pc = "done" /\ resp.body = "comment" /\ resp.status = 200
  /\ Ops(calls) = ReviewedOps /\ AllStoreCallsSucceeded

\* the first check, in the order of the handler, that rejects the request
FirstReject ==
  IF AddrInBanList THEN "IP-Banned"
  ELSE IF ~EntryReadable THEN "entry"
  ELSE IF ~OpenAt(now) THEN "closed"
  ELSE IF req.doc.malformed THEN "json"
  ELSE IF HasBanned(settings.BannedEmails) THEN "Email-Banned"
  ELSE IF HasBanned(settings.BannedKeywords) THEN "Keyword-Banned"
  ELSE "none"

\* C14: the checks run in the order banned address, thread resolution, time
\* limit, JSON decoding, banned email, banned keyword, and only then
\* verification, naming and the store calls: the response is that of the
\* first check that rejects, and after it nothing is verified, named or
\* sent to the store.
C14_FirstRejectingCheckDecides ==
  pc = "done" /\ SentJSON =>
    /\ FirstReject \in {"IP-Banned", "Email-Banned", "Keyword-Banned"} =>
         resp.status = 200 /\ resp.body = "{}" /\ resp.banned = FirstReject
    /\ FirstReject = "entry" =>
         resp.status = 400 /\ resp.msg = "Unable to read entry data"
    /\ FirstReject = "closed" =>
         resp.status = 401 /\ resp.msg = "Thread is closed for new comments"
    /\ FirstReject = "json" =>
         resp.status = 422 /\ resp.msg = "Error decoding JSON body"
    /\ FirstReject # "none" => calls = <<>> /\ comment = NoComment /\ pathname = <<>>
    /\ FirstReject = "none" =>
         /\ resp.banned = "" /\ resp.status \notin {400, 401, 422}
         /\ calls # <<>> \/ resp.panicked

C14_Witness ==
  /\ pc = "done" /\ SentJSON /\ AddrInBanList /\ ~EntryReadable
  /\ settings.TimeLimit # 0 /\ HasBannedText
  /\ resp.status = 200 /\ resp.banned = "IP-Banned"

Succeeded(op) == \E i \in 1..Len(calls) : calls[i].op = op /\ calls[i].ok

\* C15: within a request every content-store operation is called at most
\* once and nothing but the four operations is called, so nothing undoes an
\* earlier step: when a Reviewed step fails, the branch, and the file if it
\* was written, are still in the store when the request has ended with its
\* 500.
C15_NoRetryNoRollback ==
  /\ \A i, j \in 1..Len(calls) :
       (calls[i].op = calls[j].op /\ calls[i].branch = calls[j].branch) => i = j
  /\ \A i \in 1..Len(calls) : calls[i].op \in Range(ReviewedOps)
  /\ Len(calls) <= 4
  /\ Succeeded("CreateRef") <=> branch \in created.branches
  /\ Succeeded("CreateFile") <=> <<branch, pathname>> \in created.files
  /\ Succeeded("CreatePR") <=> branch \in created.pulls
  /\ pc = "done" /\ Failed("CreateFile") /\ Made("CreateRef") =>
       resp.status = 500 /\ created.branches = {branch} /\ created.files = {}
  /\ pc = "done" /\ Failed("CreatePR") =>
       /\ resp.status = 500
       /\ created.branches = {branch} /\ created.files = {<<branch, pathname>>}
       /\ created.pulls = {}

C15_Witness ==
  /\ pc = "done" /\ resp.status = 500 /\ Failed("CreatePR")
  /\ branch \in created.branches /\ <<branch, pathname>> \in created.files
  /\ branch # Master

\* C16: the scheme word is matched without regard to letter case: for every
\* header made of a case variant of "bearer", one space and a valid token
\* whose email claim is the claimed email, verify answers true.
C16_SchemeCaseInsensitive ==
  vpc = "ret" /\ ToLower(SchemeOf(vHeader)) = <<"b","e","a","r","e","r">>
              /\ (\E t \in Tokens :
                    CredentialsOf(vHeader) = t.str /\ GoodTokenFor(t, vEmail))
    => vResult

\* C17: a POST whose Content-Type is not exactly application/json is
\* answered 422 by the middleware and never reaches postComment: no settings
\* are read, no ban check marks the response, no comment is decoded or named
\* and no content-store call is made for it.
C17_NotJSONIs422BeforeHandler ==
  pc \notin {"idle", "received"} /\ req.contentType # "application/json" =>
    /\ pc = "done"
    /\ resp.status = 422 /\ resp.body = "text" /\ resp.banned = ""
    /\ resp.msg = "Content-Type must be application/json"
    /\ snap = NoSettings /\ comment = NoComment /\ pathname = <<>>
    /\ calls = <<>> /\ created = NoObjects

C17_Witness ==
  /\ pc = "done" /\ resp.status = 422 /\ calls = <<>>
  /\ req.contentType = "application/json; charset=utf-8"
  /\ req.remoteAddr \in settings.BannedIPs

\* the directory of the thread under the source directory
ThreadDirectoryOf(thread) ==
  CASE thread = <<"1","-","2","-","t">> -> <<"s","r","c","/","1","/","2","/","t">>
    [] OTHER -> <<"s","r","c","/","1","/","2","/","s">>

BothNamed(i, j) == i # j /\ tpc[i] = "named" /\ tpc[j] = "named"

SameMilli(i, j) == tAt[i] \div 1000000 = tAt[j] \div 1000000

SameSlug(i, j) == SlugOfLine(tBody[i]) = SlugOfLine(tBody[j])

\* C18 as stated: two submissions derive the same path when they are to the
\* same thread with the same slug in the same millisecond, and distinct paths
\* in every other case: another thread, another millisecond or another slug.
C18_SamePathIffSameThread ==
  \A i, j \in Submissions :
    BothNamed(i, j) =>
      (tPath[i] = tPath[j] <=>
         tThread[i] = tThread[j] /\ SameMilli(i, j) /\ SameSlug(i, j))

\* C18, amended: each path is {thread-directory}/{epoch-millis}-{slug}.json,
\* so two submissions derive the same path when their threads have the same
\* directory, their slugs are the same and their clock readings fall in the
\* same millisecond, and distinct paths in every other case.
C18_SamePathIffSameDirectory ==
  /\ \A i \in Submissions :
       tpc[i] = "named" =>
         tPath[i] = ThreadDirectoryOf(tThread[i]) \o <<"/">>
                      \o Itoa(tAt[i] \div 1000000) \o <<"-">>
                      \o SlugOfLine(tBody[i]) \o <<".","j","s","o","n">>
  /\ \A i, j \in Submissions :
       BothNamed(i, j) =>
         (tPath[i] = tPath[j] <=>
            /\ ThreadDirectoryOf(tThread[i]) = ThreadDirectoryOf(tThread[j])
            /\ SameMilli(i, j) /\ SameSlug(i, j))

C18_Witness ==
  /\ BothNamed(1, 2) /\ tPath[1] = tPath[2]
  /\ tThread[1] = tThread[2] /\ tBody[1] # tBody[2] /\ tAt[1] # tAt[2]

\* the request has taken its snapshot of the settings
HasSnapshot == pc \notin {"getSettings", "readSettings"}

PastAddressCheck == HasSnapshot /\ pc # "checkAddress" /\ resp.banned # "IP-Banned"

PastTextChecks ==
  pc \in {"route", "getBranch", "createRef", "createFile", "createPR",
          "createFileDirect"} \/ calls # <<>>

\* C19: a request takes the settings once, at the start of postComment, and
\* every policy decision it makes is the one of that snapshot, whatever the
\* cached settings have been replaced with since: the snapshot never changes
\* once taken, the address, time-limit, email, keyword and approval
\* decisions follow it, and the request holds the mutex only while it takes
\* the snapshot, never while it makes content-store calls.
C19_OneSnapshotDecidesAll ==
  /\ [](/\ mutex = "request" <=> pc = "readSettings"
        /\ calls # <<>> \/ PastTextChecks => mutex # "request"
        /\ resp.banned = "IP-Banned" <=>
             HasSnapshot /\ pc # "checkAddress" /\ req.remoteAddr \in snap.BannedIPs
        /\ resp.status = 401 =>
             snap.TimeLimit # 0 /\ now - EntryCreatedAt > snap.TimeLimit
        /\ PastAddressCheck /\ pc # "checkEntry" /\ EntryReadable /\ resp.status # 401 =>
             ~(snap.TimeLimit # 0 /\ now - EntryCreatedAt > snap.TimeLimit)
        /\ resp.banned = "Email-Banned" => HasBanned(snap.BannedEmails)
        /\ resp.banned = "Keyword-Banned" =>
             HasBanned(snap.BannedKeywords) /\ ~HasBanned(snap.BannedEmails)
        /\ PastTextChecks =>
             ~HasBanned(snap.BannedEmails) /\ ~HasBanned(snap.BannedKeywords)
        /\ calls # <<>> =>
             (calls[1].op = "GetBranch" <=> snap.RequireApproval \/ req.doc.suspect))
  /\ [][HasSnapshot => snap' = snap]_vars

C19_Witness ==
  /\ pc = "done" /\ Succeeded("CreateFile") /\ resp.status = 200
  /\ calls[1].op = "CreateFile"
  /\ refreshes > 0 /\ settings # snap
  /\ req.remoteAddr \in settings.BannedIPs /\ settings.RequireApproval

\* the comments the request has handed to CreateFile
Persisted(cs) == {cs[i].content : i \in {k \in 1..Len(cs) : cs[k].op = "CreateFile"}}

\* C20: what is persisted carries the server's values in IP, ID, date and
\* verified, whatever the body held in those fields: the address of the
\* request, the clock reading, and verified only when verify answers true
\* for the request's email and Authorization header; two submissions that
\* differ only in those fields of the body and are stamped at the same clock
\* reading persist the same comment.
C20_ServerFieldsNotFromBody ==
  /\ \A c \in Persisted(calls) :
       /\ c.IP = req.remoteAddr
       /\ c.Date = now /\ c.ID = Itoa(now)
       /\ c.Verified <=> (req.doc.email = EmailA /\ req.auth = Bearer \o <<"t","1">>)
       /\ c.Email = req.doc.email /\ c.Body = req.doc.body /\ c.URL = req.doc.url
  /\ pc = "done" /\ prev.set /\ prev.at = now
       /\ prev.req = [req EXCEPT !.doc = prev.req.doc]
       /\ [req.doc EXCEPT !.id = <<>>, !.verified = FALSE, !.ip = "", !.date = 0]
            = [prev.req.doc EXCEPT !.id = <<>>, !.verified = FALSE, !.ip = "", !.date = 0]
     => /\ Persisted(calls) # {} /\ Persisted(prev.calls) # {}
          => Persisted(calls) = Persisted(prev.calls)
        /\ comment = prev.comment

C20_Witness ==
  /\ pc = "done" /\ prev.set /\ prev.at = now
  /\ req.doc.verified /\ req.doc.id # <<>> /\ req.doc.ip # "" /\ req.doc.date # 0
  /\ ~prev.req.doc.verified /\ prev.req.doc.id = <<>>
  /\ req.auth = <<>>
  /\ Succeeded("CreateFile") /\ \E i \in 1..Len(prev.calls) :
                                   prev.calls[i].op = "CreateFile" /\ prev.calls[i].ok
  /\ \A c \in Persisted(calls) : ~c.Verified /\ c.IP = req.remoteAddr /\ c.ID # req.doc.id
  /\ Persisted(calls) = Persisted(prev.calls)
====
